---- MODULE Spec2Model ----
(***************************************************************************)
(* easy_notifyer/handlers.py: the telegram_reporter and                    *)
(* async_telegram_reporter decorators, the report builder, the filename    *)
(* generator and the two dispatch handlers.                                *)
(*                                                                         *)
(* A decorated callable is invoked by callers (threads for the blocking    *)
(* variant, tasks for the cooperative one).  Every invocation walks the    *)
(* wrapper's try/except, _report_maker, the handler and the final          *)
(* `raise exc`, one source statement per action.                          *)
(***************************************************************************)
EXTENDS Integers, Sequences, FiniteSets, TLC

(* ------------------------------ bounds --------------------------------- *)

\* invocations of the decorated callable made in one behaviour
MaxCalls == 2
\* callers that may be inside the decorated callable at the same time
NumThreads == 2

Threads == 1..NumThreads

(* ------------------------ Python values -------------------------------- *)

\* Optional[...]: None, or a present value
None == <<>>
Some(x) == <<x>>

\* dict.pop(key, None) on a dict held as a record: the value and the rest
dict_pop_value(d, k) == IF k \in DOMAIN d THEN Some(d[k]) ELSE None
dict_pop_rest(d, k) == [x \in DOMAIN d \ {k} |-> d[x]]

\* the builtin exception classes used here, each with its base class
Parent(c) ==
    CASE c = "ValueError" -> "Exception"
      [] c = "KeyError" -> "LookupError"
      [] c = "LookupError" -> "Exception"
      [] c = "ConfigError" -> "Exception"
      [] c = "TransportError" -> "Exception"
      [] c = "Exception" -> "BaseException"
      [] c = "KeyboardInterrupt" -> "BaseException"
      [] OTHER -> "object"

RECURSIVE issubclass(_, _)
issubclass(c, base) ==
    IF c = base THEN TRUE
    ELSE IF c = "object" THEN FALSE
    ELSE issubclass(Parent(c), base)

\* values of the `exceptions` option: None, one class, or a tuple of classes
ExcNone == [kind |-> "None", items |-> <<>>]
ExcClass(c) == [kind |-> "class", items |-> <<c>>]
ExcTuple(s) == [kind |-> "tuple", items |-> s]

\* Python truthiness of an `exceptions` value: None and () are falsy
Falsy(o) == o.kind = "None" \/ (o.kind = "tuple" /\ Len(o.items) = 0)

\* the default of a BaseException filter, a slip the catch-all wording suggests
ResolveExceptions_base(o) == IF Falsy(o) THEN ExcClass("BaseException") ELSE o

\* line 38 / 86: exceptions = exceptions or Exception
ResolveExceptions(o) == IF Falsy(o) THEN ExcClass("Exception") ELSE o

\* a bare `except:` in place of `except exceptions`
Matches_bare(ty, classinfo) == TRUE

\* line 45 / 93: `except exceptions as exc` matches by isinstance
Matches(ty, classinfo) ==
    \E i \in 1..Len(classinfo.items) : issubclass(ty, classinfo.items[i])

(* --------------------- inputs of the model ----------------------------- *)

RaisedTypes == {"ValueError", "KeyError", "KeyboardInterrupt"}
ReturnValues == {"v1", "v2"}

NoExc == [type |-> "", msg |-> ""]
Exc(ty, m) == [type |-> ty, msg |-> m]

\* what the wrapped callable does when called
FuncBehaviours ==
    {[kind |-> "return", value |-> v, exc |-> NoExc] : v \in ReturnValues}
    \cup {[kind |-> "raise", value |-> "", exc |-> Exc(ty, "boom")] : ty \in RaisedTypes}

ExceptionsChoices ==
    {ExcNone, ExcTuple(<<>>), ExcClass("KeyError"),
     ExcTuple(<<"KeyError", "ValueError">>), ExcClass("BaseException")}

\* **params of the decorator
EmptyDict == [k \in {} |-> TRUE]
ParamsChoices ==
    {EmptyDict,
     [disable_notification |-> TRUE, filename |-> "r.txt"],
     [filename |-> ""]}

\* datetime.now(): seconds and microseconds
Times == {[second |-> s, microsecond |-> u] : s \in {0, 7}, u \in {0, 5}}

\* EASY_NOTIFYER_FILENAME_DT_FORMAT as a sequence of strftime directives
FormatChoices == {<<"%H", "_", "%S">>, <<"%S", ".", "%f">>}

EnvChoices ==
    {[TOKEN |-> tk, CHAT_ID |-> tk, FORMAT |-> f] :
        tk \in {None, Some("env")}, f \in FormatChoices}

(* ------------------- collaborators outside handlers.py ----------------- *)

\* Report(tback, func_name, header, as_attached): body and optional attachment
Report(tback, func_name, header, attached) ==
    [report |-> [header |-> IF header = None THEN "Your program has crashed" ELSE header[1],
                 func_name |-> func_name,
                 text |-> IF attached THEN None ELSE Some(tback)],
     attach |-> IF attached THEN Some(tback) ELSE None]

\* Telegram(token=, chat_id=) / TelegramAsync(token=, chat_id=): explicit
\* argument, else the environment, else ConfigError
Telegram(cls, tok, chat, env) ==
    LET t == IF tok # None THEN tok ELSE env.TOKEN
        c == IF chat # None THEN chat ELSE env.CHAT_ID
    IN  IF t = None \/ c = None
        THEN [ok |-> FALSE, cls |-> cls, token |-> None, chat_id |-> None]
        ELSE [ok |-> TRUE, cls |-> cls, token |-> t, chat_id |-> c]

NoBot == [ok |-> FALSE, cls |-> "", token |-> None, chat_id |-> None]

\* datetime.strftime: one directive at a time
TwoDigits(n) == IF n = 7 THEN "07" ELSE "00"
SixDigits(n) == IF n = 5 THEN "000005" ELSE "000000"
Directive(d, dt) ==
    CASE d = "%S" -> TwoDigits(dt.second)
      [] d = "%f" -> SixDigits(dt.microsecond)
      [] d = "%H" -> "00"
      [] OTHER -> d

RECURSIVE strftime(_, _)
strftime(dt, fmt) ==
    IF fmt = <<>> THEN "" ELSE Directive(Head(fmt), dt) \o strftime(dt, Tail(fmt))

(* ----------------------- handlers.py, pure parts ----------------------- *)

\* traceback.format_exc() for the exception being handled
format_exc(e) == "Traceback: " \o e.type \o ": " \o e.msg

\* datetime.now() without .replace(microsecond=0)
get_filename_micro(filename, now, fmt) ==
    IF filename = None
    THEN [name |-> strftime(now, fmt) \o ".txt", read |-> TRUE]
    ELSE [name |-> filename[1], read |-> FALSE]

\* lines 109-124: _get_filename.  `now` is what datetime.now() returns if it is
\* called; `read` tells whether it was called
get_filename(filename, now, fmt) ==
    IF filename = None
    THEN [name |-> strftime([now EXCEPT !.microsecond = 0], fmt) \o ".txt", read |-> TRUE]
    ELSE [name |-> filename[1], read |-> FALSE]

\* lines 127-145: _report_maker
report_maker(tback, func_name, header, attached) ==
    Report(tback, func_name, header, attached)

(* ------------------------------ state ---------------------------------- *)

VARIABLES
    variant,        \* "sync": telegram_reporter, "async": async_telegram_reporter
    token,          \* decorator option token
    chat_id,        \* decorator option chat_id
    opt_exceptions, \* decorator option exceptions, as passed
    exceptions,     \* the filter after line 38 / 86
    header,         \* decorator option header
    as_attached,    \* decorator option as_attached
    params,         \* decorator **params
    Env,            \* easy_notifyer.env.Env
    th,             \* per caller: the frame of its invocation of wrapper
    decorated,      \* the options as they were when the decorator was applied
    calls,          \* invocations started
    matched,        \* invocations whose exception the except clause caught
    sends           \* sink operations (send_message / send_attach) called

options == <<variant, token, chat_id, opt_exceptions, exceptions, header, as_attached,
             params, Env>>
counters == <<calls, matched, sends>>
vars == <<options, decorated, th, counters>>

NoReport == [report |-> [header |-> "", func_name |-> "", text |-> None], attach |-> None]
NoResult == [kind |-> "none", value |-> "", exc |-> NoExc, context |-> NoExc]

\* a frame before the call
Idle ==
    [pc |-> "idle",
     call |-> [kind |-> "none", value |-> "", exc |-> NoExc],
     exc |-> NoExc,          \* `exc` bound by the except clause
     reports |-> <<>>,       \* Reports built in this invocation
     report |-> NoReport,    \* local `report`
     received |-> <<>>,      \* arguments the handler was called with
     kwargs |-> EmptyDict,   \* the handler's **kwargs
     bot |-> NoBot,          \* the handler's `bot`
     bots |-> 0,             \* transport clients constructed
     filename |-> None,      \* the handler's `filename`
     now |-> <<>>,           \* values datetime.now() returned
     sink |-> <<>>,          \* sink operations called, with their arguments
     result |-> NoResult]    \* what the caller observes

Init ==
    /\ variant \in {"sync", "async"}
    /\ token \in {None, Some("tok")}
    /\ chat_id \in {None, Some("chat")}
    /\ opt_exceptions \in ExceptionsChoices
    /\ exceptions = ResolveExceptions(opt_exceptions)
    /\ header \in {None, Some("hdr")}
    /\ as_attached \in BOOLEAN
    /\ params \in ParamsChoices
    /\ Env \in EnvChoices
    /\ decorated = [token |-> token, chat_id |-> chat_id, exceptions |-> exceptions,
                    header |-> header, as_attached |-> as_attached, params |-> params]
    /\ th = [t \in Threads |-> Idle]
    /\ calls = 0
    /\ matched = 0
    /\ sends = 0

(* ----------------------------- wrapper --------------------------------- *)

\* a caller calls the decorated callable; what the wrapped callable will do
\* is an input
Call(t) ==
    /\ th[t].pc = "idle"
    /\ calls < MaxCalls
    /\ \E b \in FuncBehaviours : th' = [th EXCEPT ![t] = [Idle EXCEPT !.pc = "try", !.call = b]]
    /\ calls' = calls + 1
    /\ UNCHANGED <<options, decorated, matched, sends>>

\* the wrapper drops the value: `func(*args, **kwargs)` without `return`
Wrapper_return_dropped(t) ==
    /\ th[t].pc = "try"
    /\ th[t].call.kind = "return"
    /\ th' = [th EXCEPT ![t].pc = "done",
                        ![t].result = [NoResult EXCEPT !.kind = "return", !.value = "None"]]
    /\ UNCHANGED <<options, decorated, counters>>

\* lines 43-44 / 91-92: return func(*args, **kwargs)
Wrapper_return(t) ==
    /\ th[t].pc = "try"
    /\ th[t].call.kind = "return"
    /\ th' = [th EXCEPT ![t].pc = "done",
                        ![t].result = [NoResult EXCEPT !.kind = "return",
                                                       !.value = th[t].call.value]]
    /\ UNCHANGED <<options, decorated, counters>>

\* lines 43-45 / 91-93: func raises and the except clause does not match
Wrapper_passthrough(t) ==
    /\ th[t].pc = "try"
    /\ th[t].call.kind = "raise"
    /\ ~Matches(th[t].call.exc.type, exceptions)
    /\ th' = [th EXCEPT ![t].pc = "done",
                        ![t].result = [NoResult EXCEPT !.kind = "raise", !.exc = th[t].call.exc]]
    /\ UNCHANGED <<options, decorated, counters>>

\* lines 43-45 / 91-93: func raises and the except clause binds exc
Wrapper_except(t) ==
    /\ th[t].pc = "try"
    /\ th[t].call.kind = "raise"
    /\ Matches(th[t].call.exc.type, exceptions)
    /\ th' = [th EXCEPT ![t].pc = "report", ![t].exc = th[t].call.exc]
    /\ matched' = matched + 1
    /\ UNCHANGED <<options, decorated, calls, sends>>

\* lines 46-53 / 94-102: func_name, tback, report = _report_maker(...)
\* (through run_sync and awaited in the async wrapper)
Wrapper_report(t) ==
    /\ th[t].pc = "report"
    /\ LET r == report_maker(format_exc(th[t].exc), "f", header, as_attached)
       IN  th' = [th EXCEPT ![t].pc = "handler",
                            ![t].report = r,
                            ![t].reports = Append(@, r)]
    /\ UNCHANGED <<options, decorated, counters>>

(* ----------------------------- handler --------------------------------- *)

BotClass == IF variant = "sync" THEN "Telegram" ELSE "TelegramAsync"

\* an exception raised inside the except block leaves the wrapper in place of exc
Raised(ty, during) ==
    [kind |-> "raise", value |-> "", exc |-> Exc(ty, ""), context |-> during]

\* the filename is resolved before the client is constructed
Handler_bot_after_filename(t) ==
    /\ th[t].pc = "handler"
    /\ \E now \in Times :
         LET b == Telegram(BotClass, token, chat_id, Env)
             att == th[t].report.attach # None
             r == get_filename(dict_pop_value(params, "filename"), now, Env.FORMAT)
         IN  th' = [th EXCEPT
                      ![t].received = Append(@, [token |-> token, chat_id |-> chat_id,
                                                 kwargs |-> params]),
                      ![t].kwargs = IF att THEN dict_pop_rest(params, "filename") ELSE params,
                      ![t].filename = IF att THEN Some(r.name) ELSE @,
                      ![t].now = IF att /\ r.read THEN Append(@, now) ELSE @,
                      ![t].bot = b,
                      ![t].bots = @ + 1,
                      ![t].pc = IF b.ok THEN "branch" ELSE "done",
                      ![t].result = IF b.ok THEN @ ELSE Raised("ConfigError", th[t].exc)]
    /\ UNCHANGED <<options, decorated, counters>>

\* line 54 / 103: the handler is called with token, chat_id and a copy of params;
\* line 169 / 198: bot = Telegram(...) / TelegramAsync(...), which may raise
\* ConfigError out of the handler and out of the wrapper
Handler_bot(t) ==
    /\ th[t].pc = "handler"
    /\ LET b == Telegram(BotClass, token, chat_id, Env)
       IN  th' = [th EXCEPT
                    ![t].received = Append(@, [token |-> token, chat_id |-> chat_id,
                                               kwargs |-> params]),
                    ![t].kwargs = params,
                    ![t].bot = b,
                    ![t].bots = @ + 1,
                    ![t].pc = IF b.ok THEN "branch" ELSE "done",
                    ![t].result = IF b.ok THEN @ ELSE Raised("ConfigError", th[t].exc)]
    /\ UNCHANGED <<options, decorated, counters>>

\* kwargs is the decorator's params dict itself, not a copy
Handler_filename_shared(t) ==
    /\ th[t].pc = "branch"
    /\ th[t].report.attach # None
    /\ \E now \in Times :
         LET r == get_filename(dict_pop_value(params, "filename"), now, Env.FORMAT)
         IN  th' = [th EXCEPT ![t].pc = "attach",
                              ![t].kwargs = dict_pop_rest(params, "filename"),
                              ![t].filename = Some(r.name),
                              ![t].now = IF r.read THEN Append(@, now) ELSE @]
    /\ params' = dict_pop_rest(params, "filename")
    /\ UNCHANGED <<variant, token, chat_id, opt_exceptions, exceptions, header,
                   as_attached, Env, decorated, counters>>

\* lines 170-171 / 199-200: filename = _get_filename(kwargs.pop('filename', None))
\* (through run_sync and awaited in the async handler)
Handler_filename(t) ==
    /\ th[t].pc = "branch"
    /\ th[t].report.attach # None
    /\ \E now \in Times :
         LET r == get_filename(dict_pop_value(th[t].kwargs, "filename"), now, Env.FORMAT)
         IN  th' = [th EXCEPT ![t].pc = "attach",
                              ![t].kwargs = dict_pop_rest(@, "filename"),
                              ![t].filename = Some(r.name),
                              ![t].now = IF r.read THEN Append(@, now) ELSE @]
    /\ UNCHANGED <<options, decorated, counters>>

\* line 172 / 201: bot.send_attach(msg=, attach=, filename=, **kwargs) is called
Handler_send_attach(t) ==
    /\ th[t].pc = "attach"
    /\ th' = [th EXCEPT ![t].pc = "sending",
                        ![t].sink = Append(@, [op |-> "send_attach",
                                               bot |-> th[t].bot,
                                               msg |-> th[t].report.report,
                                               attach |-> th[t].report.attach,
                                               filename |-> th[t].filename,
                                               kwargs |-> th[t].kwargs,
                                               status |-> "pending"])]
    /\ sends' = sends + 1
    /\ UNCHANGED <<options, decorated, calls, matched>>

\* lines 173-174 / 202-203: bot.send_message(report.report, **kwargs) is called
Handler_send_message(t) ==
    /\ th[t].pc = "branch"
    /\ th[t].report.attach = None
    /\ th' = [th EXCEPT ![t].pc = "sending",
                        ![t].sink = Append(@, [op |-> "send_message",
                                               bot |-> th[t].bot,
                                               msg |-> th[t].report.report,
                                               attach |-> None,
                                               filename |-> None,
                                               kwargs |-> th[t].kwargs,
                                               status |-> "pending"])]
    /\ sends' = sends + 1
    /\ UNCHANGED <<options, decorated, calls, matched>>

\* the sink operation returns; the handler returns to the wrapper
Sink_ok(t) ==
    /\ th[t].pc = "sending"
    /\ th' = [th EXCEPT ![t].pc = "raise",
                        ![t].sink[Len(th[t].sink)].status = "ok"]
    /\ UNCHANGED <<options, decorated, counters>>

\* the handler sends again after a failed delivery
Sink_error_retry(t) ==
    /\ th[t].pc = "sending"
    /\ th' = [th EXCEPT ![t].pc = IF th[t].report.attach # None THEN "attach" ELSE "branch",
                        ![t].sink[Len(th[t].sink)].status = "error"]
    /\ UNCHANGED <<options, decorated, counters>>

\* the sink operation raises; nothing in the handler or the wrapper catches it
Sink_error(t) ==
    /\ th[t].pc = "sending"
    /\ th' = [th EXCEPT ![t].pc = "done",
                        ![t].sink[Len(th[t].sink)].status = "error",
                        ![t].result = Raised("TransportError", th[t].exc)]
    /\ UNCHANGED <<options, decorated, counters>>

\* the dispatch is started and not awaited
Wrapper_reraise_detached(t) ==
    /\ th[t].pc \in {"raise", "sending"}
    /\ th' = [th EXCEPT ![t].pc = "done",
                        ![t].result = [NoResult EXCEPT !.kind = "raise", !.exc = th[t].exc]]
    /\ UNCHANGED <<options, decorated, counters>>

\* line 55 / 104: raise exc
Wrapper_reraise(t) ==
    /\ th[t].pc = "raise"
    /\ th' = [th EXCEPT ![t].pc = "done",
                        ![t].result = [NoResult EXCEPT !.kind = "raise", !.exc = th[t].exc]]
    /\ UNCHANGED <<options, decorated, counters>>

\* the caller has the result; its frame is gone
Return(t) ==
    /\ th[t].pc = "done"
    /\ th' = [th EXCEPT ![t] = Idle]
    /\ UNCHANGED <<options, decorated, counters>>

(* -------------------------- specifications ----------------------------- *)

Step(t) ==
    \/ Call(t)
    \/ Wrapper_return(t)
    \/ Wrapper_passthrough(t)
    \/ Wrapper_except(t)
    \/ Wrapper_report(t)
    \/ Handler_bot(t)
    \/ Handler_filename(t)
    \/ Handler_send_attach(t)
    \/ Handler_send_message(t)
    \/ Sink_ok(t)
    \/ Sink_error(t)
    \/ Wrapper_reraise(t)
    \/ Return(t)

\* one caller, calling again and again, under every combination of options
Main == CHOOSE t \in Threads : \A u \in Threads : t <= u

Next == Step(Main)

Spec == Init /\ [][Next]_vars

\* concurrent callers (threads, or tasks of one event loop, whose steps
\* interleave at least at every await), under the options a dispatch reads
InitThreads ==
    /\ Init
    /\ opt_exceptions = ExcNone
    /\ header = None
    /\ (token = None) = (chat_id = None)
    /\ Env = [TOKEN |-> None, CHAT_ID |-> None, FORMAT |-> <<"%S", ".", "%f">>]

NextThreads == \E t \in Threads : Step(t)

SpecThreads == InitThreads /\ [][NextThreads]_vars

(* ------------------------------ claims --------------------------------- *)

\* the kind is in the filter set the decorator holds
InFilterSet(ty) ==
    \E i \in 1..Len(exceptions.items) : issubclass(ty, exceptions.items[i])

\* the wrapped callable of t's invocation has raised
Raising(t) == th[t].call.kind = "raise" /\ th[t].pc \notin {"idle", "try"}

\* the wrapped callable raised and the except clause caught it
Caught(t) == th[t].exc # NoExc

\* explicit arguments or the environment yield a token and a destination
CredsUsable ==
    /\ token # None \/ Env.TOKEN # None
    /\ chat_id # None \/ Env.CHAT_ID # None

ReraisedOriginal(t) ==
    th[t].result = [NoResult EXCEPT !.kind = "raise", !.exc = th[t].call.exc]

Quiescent == \A t \in Threads : th[t].pc \in {"idle", "done"}

\* C1: a decorated call whose wrapped callable raised an exception of a kind in
\* the filter set ends by raising that same exception, whether the report
\* handler returned or failed.
C1_ReraisesOriginal ==
    \A t \in Threads :
        (th[t].pc = "done" /\ Raising(t) /\ InFilterSet(th[t].call.exc.type))
            => ReraisedOriginal(t)

\* C2: when the wrapped callable raises a kind outside the filter set, no
\* Report is built, no client is created, no sink operation is called and the
\* exception reaches the caller untouched.
C2_NonMatchingUntouched ==
    \A t \in Threads :
        (Raising(t) /\ ~InFilterSet(th[t].call.exc.type))
            => /\ th[t].pc = "done"
               /\ th[t].reports = <<>>
               /\ th[t].bots = 0
               /\ th[t].sink = <<>>
               /\ th[t].now = <<>>
               /\ ReraisedOriginal(t)

C2_Witness ==
    \E t \in Threads :
        /\ th[t].pc = "done"
        /\ Raising(t)
        /\ ~InFilterSet(th[t].call.exc.type)
        /\ th[t].call.exc.type = "ValueError"

\* C3: for a caught exception the order is: raised, report built, sink call
\* started, sink call completed, exception observed.  The caller observes
\* nothing while a sink call is pending, observes the original exception only
\* after the one sink call has completed, and no sink call outlives the call.
C3_DispatchBeforeReraise ==
    \A t \in Threads :
        /\ th[t].reports # <<>> => Caught(t)
        /\ th[t].bots > 0 => th[t].reports # <<>>
        /\ th[t].sink # <<>> => th[t].bots > 0
        /\ (\E i \in DOMAIN th[t].sink : th[t].sink[i].status = "pending")
              => th[t].pc = "sending" /\ th[t].result = NoResult
        /\ th[t].result # NoResult => th[t].pc = "done"
        /\ (Caught(t) /\ th[t].result.kind = "raise" /\ th[t].result.exc = th[t].exc)
              => /\ Len(th[t].sink) = 1
                 /\ th[t].sink[1].status = "ok"
        /\ (Caught(t) /\ th[t].result.exc.type = "TransportError")
              => /\ Len(th[t].sink) = 1
                 /\ th[t].sink[1].status = "error"

C3_Witness ==
    \E t \in Threads :
        /\ variant = "async"
        /\ th[t].pc = "done"
        /\ Caught(t)
        /\ th[t].result.exc = th[t].exc
        /\ th[t].sink[1].op = "send_attach"

\* C4: when the wrapped callable returns v, the decorated callable returns v
\* and builds no Report, creates no client and calls no sink operation.
C4_ReturnsValue ==
    \A t \in Threads :
        (th[t].call.kind = "return" /\ th[t].pc \notin {"idle", "try"})
            => /\ th[t].pc = "done"
               /\ th[t].result = [NoResult EXCEPT !.kind = "return",
                                                  !.value = th[t].call.value]
               /\ th[t].reports = <<>>
               /\ th[t].bots = 0
               /\ th[t].sink = <<>>

C4_Witness ==
    \E t \in Threads :
        /\ th[t].pc = "done"
        /\ th[t].call.kind = "return"
        /\ th[t].call.value = "v2"

\* C5 as stated: every invocation that caught an exception builds exactly one
\* Report and makes exactly one sink-operation call, and over any sequence of
\* invocations the sink-operation calls number the caught exceptions.
C5_ExactlyOneSend ==
    /\ \A t \in Threads :
          (th[t].pc = "done" /\ Caught(t))
              => Len(th[t].reports) = 1 /\ Len(th[t].sink) = 1
    /\ Quiescent => sends = matched

\* C5 as amended: every invocation that caught an exception builds exactly one
\* Report and makes at most one sink-operation call: exactly one when the
\* transport client was resolved, none when resolving it raised ConfigError;
\* the sink-operation calls number the caught exceptions whose client resolved.
C5_AtMostOneSend ==
    /\ \A t \in Threads :
          /\ Len(th[t].reports) <= 1
          /\ Len(th[t].sink) <= 1
          /\ (th[t].pc = "done" /\ Caught(t))
                => /\ Len(th[t].reports) = 1
                   /\ th[t].bots = 1
                   /\ Len(th[t].sink) = IF th[t].bot.ok THEN 1 ELSE 0
    /\ sends <= matched
    /\ Quiescent => sends = IF CredsUsable THEN matched ELSE 0

C5_Witness ==
    /\ Quiescent
    /\ calls = MaxCalls
    /\ matched = calls
    /\ sends = matched
    /\ \E t \in Threads : th[t].pc = "done" /\ Len(th[t].sink) = 1

\* C6: the transport client is resolved before any sink operation and before
\* the filename is generated; when neither the arguments nor the environment
\* yield credentials and a destination, the dispatch fails with ConfigError
\* and no sink operation was called and no filename generated.
C6_ClientBeforeSink ==
    \A t \in Threads :
        /\ (th[t].sink # <<>> \/ th[t].filename # None \/ th[t].now # <<>>)
              => /\ th[t].bots = 1
                 /\ th[t].bot.ok
                 /\ th[t].bot.token = (IF token # None THEN token ELSE Env.TOKEN)
                 /\ th[t].bot.chat_id = (IF chat_id # None THEN chat_id ELSE Env.CHAT_ID)
                 /\ \A i \in DOMAIN th[t].sink : th[t].sink[i].bot = th[t].bot
        /\ (th[t].bots > 0 /\ ~CredsUsable)
              => /\ th[t].pc = "done"
                 /\ th[t].result.kind = "raise"
                 /\ th[t].result.exc.type = "ConfigError"
                 /\ th[t].sink = <<>>
                 /\ th[t].filename = None
                 /\ th[t].now = <<>>

C6_Witness ==
    \E t \in Threads :
        /\ th[t].result.exc.type = "ConfigError"
        /\ as_attached
        /\ "filename" \notin DOMAIN params

\* C7 as stated: with the exceptions option None or empty, every kind the
\* wrapped callable raises is intercepted and reported.
C7_CatchAll ==
    Falsy(opt_exceptions)
        => \A t \in Threads :
              Raising(t) => /\ th[t].exc = th[t].call.exc
                            /\ th[t].pc = "done" => Len(th[t].reports) = 1

\* C7 as amended: with the exceptions option None or empty the filter is
\* Exception: every kind derived from Exception is intercepted and a Report
\* is built for it, and a kind that derives from BaseException only
\* (KeyboardInterrupt) passes through unreported.
C7_DefaultIsException ==
    Falsy(opt_exceptions)
        => /\ exceptions = ExcClass("Exception")
           /\ \A t \in Threads :
                Raising(t)
                    => IF issubclass(th[t].call.exc.type, "Exception")
                       THEN /\ th[t].exc = th[t].call.exc
                            /\ th[t].pc = "done" => /\ Len(th[t].reports) = 1
                                                    /\ th[t].bots = 1
                       ELSE /\ th[t].exc = NoExc
                            /\ th[t].pc = "done"
                            /\ th[t].reports = <<>>
                            /\ th[t].sink = <<>>
                            /\ ReraisedOriginal(t)

C7_Witness ==
    /\ opt_exceptions = ExcTuple(<<>>)
    /\ \E t \in Threads :
          /\ th[t].pc = "done"
          /\ th[t].call.exc.type = "KeyboardInterrupt"

\* C8: an explicit filename is the resolved filename, reaches send_attach
\* unchanged, and the clock is not read; with none, the filename is the
\* current time with its microseconds zeroed, formatted per the configured
\* pattern, followed by ".txt".
C8_Filename ==
    \A t \in Threads :
        th[t].filename # None
            => LET given == dict_pop_value(th[t].received[1].kwargs, "filename")
               IN  /\ IF given # None
                      THEN th[t].filename = given /\ th[t].now = <<>>
                      ELSE /\ Len(th[t].now) = 1
                           /\ th[t].filename =
                                Some(strftime([second |-> th[t].now[1].second,
                                               microsecond |-> 0], Env.FORMAT) \o ".txt")
                   /\ \A i \in DOMAIN th[t].sink :
                        th[t].sink[i].op = "send_attach"
                            => th[t].sink[i].filename = th[t].filename

C8_Witness ==
    \E t \in Threads :
        /\ th[t].sink # <<>>
        /\ th[t].sink[1].op = "send_attach"
        /\ th[t].now # <<>>
        /\ th[t].now[1].microsecond # 0
        /\ Env.FORMAT = <<"%S", ".", "%f">>

\* C9: the sink operation and its arguments follow from the Report's
\* attachment alone: send_attach with caption, payload, resolved filename and
\* the delivery flags when there is one, else send_message with the body and
\* the delivery flags only; the filename option never reaches send_message
\* and no filename is generated in inline mode.
C9_SinkArguments ==
    \A t \in Threads :
        \A i \in DOMAIN th[t].sink :
            LET s == th[t].sink[i]
            IN  /\ s.msg = th[t].report.report
                /\ "filename" \notin DOMAIN s.kwargs
                /\ IF th[t].report.attach # None
                   THEN /\ s.op = "send_attach"
                        /\ s.attach = th[t].report.attach
                        /\ s.filename = th[t].filename
                        /\ s.filename # None
                   ELSE /\ s.op = "send_message"
                        /\ th[t].filename = None
                        /\ th[t].now = <<>>

\* C10: whatever the interleaving of invocations, the options given to the
\* decorator stay as they were, and every dispatch receives them whole: the
\* kwargs.pop('filename') of one dispatch takes nothing from another's.
C10_OptionsUnshared ==
    /\ decorated = [token |-> token, chat_id |-> chat_id, exceptions |-> exceptions,
                    header |-> header, as_attached |-> as_attached, params |-> params]
    /\ \A t \in Threads :
          th[t].received # <<>>
              => th[t].received[1] = [token |-> decorated.token,
                                      chat_id |-> decorated.chat_id,
                                      kwargs |-> decorated.params]

C10_Witness ==
    \E t, u \in Threads :
        /\ t # u
        /\ "filename" \in DOMAIN params
        /\ th[t].pc = "attach"
        /\ "filename" \notin DOMAIN th[t].kwargs
        /\ th[u].pc = "branch"
        /\ "filename" \in DOMAIN th[u].kwargs

====
